---- MODULE Spec2Model ----
(***************************************************************************)
(* A model of loader/index.py: the class Index, which resolves a           *)
(* model-type label into process-wide llama_index Settings, builds and     *)
(* persists a vector-store index (persist) and loads one back (load).      *)
(*                                                                         *)
(* Python's None is modelled as the empty set and a present value x as     *)
(* the singleton {x}, so that every optional value has one type.           *)
(* The external library (llama_index, llama_cpp, the file system) is       *)
(* modelled by its effect on what this class observes: the storage         *)
(* directory and the values the calls return.  Calls into it are taken to  *)
(* return normally unless the input of this class makes them raise.        *)
(***************************************************************************)
EXTENDS Naturals, FiniteSets, Sequences, TLC

\* ------------------------------------------------------------ bounds
MaxInstances == 1   \* Index objects alive at one time
MaxPaths     == 1   \* distinct storage directories

\* ------------------------------------------------------------ optional values
None == {}
Some(x) == {x}
IsNone(o) == o = {}
Get(o) == CHOOSE x \in o : TRUE

\* ------------------------------------------------------------ class constants
LLM_DEFAULT       == "DEFAULT"
LLAMA2_7B_Q4      == "LLAMA2-7B_Q4"
LLAMA2_7B_Q4_URL  == "https://huggingface.co/TheBloke/Llama-2-7B-Chat-GGUF/resolve/main/llama-2-7b-chat.Q4_K_M.gguf"
LLAMA2_7B_Q5      == "LLAMA2-7B_Q5"
LLAMA2_7B_Q5_URL  == "https://huggingface.co/TheBloke/Llama-2-7B-Chat-GGUF/resolve/main/llama-2-7b-chat.Q5_K_M.gguf"
LLAMA2_13B_Q4     == "LLAMA2-13B_Q4"
LLAMA2_13B_Q4_URL == "https://huggingface.co/TheBloke/Llama-2-13B-chat-GGUF/resolve/main/llama-2-13b-chat.Q4_K_M.gguf"
LLAMA2_13B_Q5     == "LLAMA2-13B_Q5"
LLAMA2_13B_Q5_URL == "https://huggingface.co/TheBloke/Llama-2-13B-chat-GGUF/resolve/main/llama-2-13b-chat.Q5_K_M.gguf"
MIXTRAL_7B_Q4     == "MIXTRAL-7B_Q4"
MIXTRAL_7B_Q4_URL == "https://huggingface.co/TheBloke/Mixtral-8x7B-Instruct-v0.1-GGUF/resolve/main/mixtral-8x7b-instruct-v0.1.Q4_K_M.gguf"
MIXTRAL_7B_Q5     == "MIXTRAL-7B_Q5"
MIXTRAL_7B_Q5_URL == "https://huggingface.co/TheBloke/Mixtral-8x7B-Instruct-v0.1-GGUF/resolve/main/mixtral-8x7b-instruct-v0.1.Q5_K_M.gguf"

CONTEXT_WINDOW == 2048
CHUNK_SIZE     == 512

\* ------------------------------------------------------------ input domains
\* A label the match statement has no case for.
UnknownLabel == "GPT-4"

\* The model_type arguments tried: None, the seven labels, an unknown one.
ModelTypes ==
    {None} \cup { Some(l) : l \in { LLM_DEFAULT, LLAMA2_7B_Q4, LLAMA2_7B_Q5,
                                    LLAMA2_13B_Q4, LLAMA2_13B_Q5,
                                    MIXTRAL_7B_Q4, MIXTRAL_7B_Q5,
                                    UnknownLabel } }

Paths == 1..MaxPaths
StorageDirs == {None} \cup { Some(p) : p \in Paths }

\* A document list is the set of the documents in it.  The class never looks
\* inside the list, so two lists that differ stand for all of them; an index
\* may hold more than one list's documents.
DocSets == { {"a test document"}, {"another document"} }
Documents == {None} \cup { Some(D) : D \in DocSets }

\* ------------------------------------------------------------ state
VARIABLES
    instances,   \* the Index objects alive: records of their attributes
    Settings,    \* llama_index.core.Settings: llm, embed_model, chunk_size
    disk,        \* per path: does the directory exist, and the index in it
    resolved,    \* locals llm, embed_model of the last match that succeeded
    ret          \* the last call: operation, receiver, arguments, outcome

vars == <<instances, Settings, disk, resolved, ret>>

Unset == [cls |-> "unset"]

\* ------------------------------------------------------------ helpers
get_llm_model(model_url) ==
    [cls |-> "LlamaCPP", model_url |-> model_url, context_window |-> CONTEXT_WINDOW]

HuggingFaceEmbedding(model_name) ==
    [cls |-> "HuggingFaceEmbedding", model_name |-> model_name]

StrValue(s) == [cls |-> "str", value |-> s]

\* ret before any call.  The field `before` is what persist() found in the
\* directory it wrote to (None for every other call).
NoCall == [op |-> "none", self |-> None, model_type |-> None,
           raised |-> "", message |-> <<>>, value |-> None, before |-> None]

\* f"{model_type}": a string prints as itself, None prints as "None".
Format(model_type) == IF IsNone(model_type) THEN "None" ELSE Get(model_type)

\* Match without its last case: MIXTRAL-7B_Q5 falls through to `case _`.
Match_DropsLastCase(model_type) ==
    IF model_type = Some(LLM_DEFAULT) THEN
        Some([llm |-> StrValue("default"), embed_model |-> "default"])
    ELSE IF model_type = Some(LLAMA2_7B_Q4) THEN
        Some([llm |-> get_llm_model(LLAMA2_7B_Q4_URL), embed_model |-> "local"])
    ELSE IF model_type = Some(LLAMA2_7B_Q5) THEN
        Some([llm |-> get_llm_model(LLAMA2_7B_Q5_URL), embed_model |-> "local"])
    ELSE IF model_type = Some(LLAMA2_13B_Q4) THEN
        Some([llm |-> get_llm_model(LLAMA2_13B_Q4_URL), embed_model |-> "local"])
    ELSE IF model_type = Some(LLAMA2_13B_Q5) THEN
        Some([llm |-> get_llm_model(LLAMA2_13B_Q5_URL), embed_model |-> "local"])
    ELSE IF model_type = Some(MIXTRAL_7B_Q4) THEN
        Some([llm |-> get_llm_model(MIXTRAL_7B_Q4_URL), embed_model |-> "local"])
    ELSE None

\* The match statement of __set_service_context: the locals (llm, embed_model)
\* of the case that matches, or None when control reaches `case _`.
Match(model_type) ==
    IF model_type = Some(LLM_DEFAULT) THEN
        Some([llm |-> StrValue("default"), embed_model |-> "default"])
    ELSE IF model_type = Some(LLAMA2_7B_Q4) THEN
        Some([llm |-> get_llm_model(LLAMA2_7B_Q4_URL), embed_model |-> "local"])
    ELSE IF model_type = Some(LLAMA2_7B_Q5) THEN
        Some([llm |-> get_llm_model(LLAMA2_7B_Q5_URL), embed_model |-> "local"])
    ELSE IF model_type = Some(LLAMA2_13B_Q4) THEN
        Some([llm |-> get_llm_model(LLAMA2_13B_Q4_URL), embed_model |-> "local"])
    ELSE IF model_type = Some(LLAMA2_13B_Q5) THEN
        Some([llm |-> get_llm_model(LLAMA2_13B_Q5_URL), embed_model |-> "local"])
    ELSE IF model_type = Some(MIXTRAL_7B_Q4) THEN
        Some([llm |-> get_llm_model(MIXTRAL_7B_Q4_URL), embed_model |-> "local"])
    ELSE IF model_type = Some(MIXTRAL_7B_Q5) THEN
        Some([llm |-> get_llm_model(MIXTRAL_7B_Q5_URL), embed_model |-> "local"])
    ELSE None

\* ApplySettings with a chunk size that depends on the case that matched.
ApplySettings_ChunkPerBackend(locals) ==
    [llm         |-> locals.llm,
     embed_model |-> HuggingFaceEmbedding("BAAI/bge-small-en-v1.5"),
     chunk_size  |-> IF locals.embed_model = "local" THEN CHUNK_SIZE ELSE 2 * CHUNK_SIZE]

\* The three assignments to Settings that follow the match.
ApplySettings(locals) ==
    [llm         |-> locals.llm,
     embed_model |-> HuggingFaceEmbedding("BAAI/bge-small-en-v1.5"),
     chunk_size  |-> CHUNK_SIZE]

\* __set_service_context as a whole: what it raises, and the Settings and the
\* locals it leaves, given the Settings it found.
set_service_context(model_type, old) ==
    LET m == Match(model_type) IN
    IF IsNone(m)
    THEN [raised   |-> "TypeError",
          message  |-> <<"LLM model type ", Format(model_type), " not supported">>,
          Settings |-> old,
          locals   |-> None]
    ELSE [raised   |-> "",
          message  |-> <<>>,
          Settings |-> ApplySettings(Get(m)),
          locals   |-> m]

\* VectorStoreIndex.from_documents: the index holds the documents, embedded and
\* chunked under the Settings active at the time of the call.
from_documents(D, active) ==
    [docs |-> D, embed_model |-> active.embed_model, chunk_size |-> active.chunk_size]

\* storage_persist that adds to the store files already there.
storage_persist_Merges(d, p, index) ==
    [d EXCEPT ![p] =
        [exists |-> TRUE,
         index  |-> IF IsNone(d[p].index) THEN Some(index)
                    ELSE Some([index EXCEPT !.docs = @ \cup Get(d[p].index).docs])]]

\* index.storage_context.persist(persist_dir=p): the directory is created if
\* need be and the store files in it are written anew from this index.
storage_persist(d, p, index) ==
    [d EXCEPT ![p] = [exists |-> TRUE, index |-> Some(index)]]

\* os.path.exists(self.storage_dir), for a storage_dir that is a path.
storage_exists(d, p) == d[p].exists

\* persist that creates the storage directory before it tests the documents.
persist_MakesDir(self, d, active) ==
    IF ~IsNone(self.documents) /\ ~IsNone(self.storage_dir)
    THEN LET index == from_documents(Get(self.documents), active) IN
         [raised |-> "", value |-> Some(index),
          disk |-> storage_persist(d, Get(self.storage_dir), index)]
    ELSE [raised |-> "", value |-> None,
          disk |-> IF IsNone(self.storage_dir) THEN d
                   ELSE [d EXCEPT ![Get(self.storage_dir)].exists = TRUE]]

\* persist that tests the storage path alone and indexes no documents when
\* there are none.
persist_IgnoresDocuments(self, d, active) ==
    IF ~IsNone(self.storage_dir)
    THEN LET index == from_documents(IF IsNone(self.documents) THEN {}
                                     ELSE Get(self.documents), active) IN
         [raised |-> "", value |-> Some(index),
          disk |-> storage_persist(d, Get(self.storage_dir), index)]
    ELSE [raised |-> "", value |-> None, disk |-> d]

\* persist(): the value returned and the disk left.
persist(self, d, active) ==
    IF ~IsNone(self.documents) /\ ~IsNone(self.storage_dir)
    THEN LET index == from_documents(Get(self.documents), active) IN
         [raised |-> "", value |-> Some(index),
          disk |-> storage_persist(d, Get(self.storage_dir), index)]
    ELSE [raised |-> "", value |-> None, disk |-> d]

\* load with the test of __storage_exists negated.
load_Inverted(self, d) ==
    IF IsNone(self.storage_dir)
    THEN [raised |-> "TypeError", value |-> None]
    ELSE IF ~storage_exists(d, Get(self.storage_dir))
    THEN [raised |-> "FileNotFoundError", value |-> None]
    ELSE [raised |-> "", value |-> None]

\* load(): the value returned or the exception raised.  os.path.exists(None)
\* raises TypeError; a directory with no store files in it makes
\* StorageContext.from_defaults raise FileNotFoundError.
load(self, d) ==
    IF IsNone(self.storage_dir)
    THEN [raised |-> "TypeError", value |-> None]
    ELSE IF storage_exists(d, Get(self.storage_dir))
    THEN IF IsNone(d[Get(self.storage_dir)].index)
         THEN [raised |-> "FileNotFoundError", value |-> None]
         ELSE [raised |-> "", value |-> d[Get(self.storage_dir)].index]
    ELSE [raised |-> "", value |-> None]

\* ------------------------------------------------------------ specification
Init ==
    /\ instances = {}
    /\ Settings = [llm |-> Unset, embed_model |-> Unset, chunk_size |-> 0]
    /\ disk \in [Paths -> {[exists |-> FALSE, index |-> None],
                           [exists |-> TRUE,  index |-> None]}]
    /\ resolved = None
    /\ ret = NoCall

\* Index(storage_dir, documents, model_type)
Construct(storage_dir, documents, model_type) ==
    LET self == [storage_dir |-> storage_dir, documents |-> documents]
        r    == set_service_context(model_type, Settings)
    IN  /\ Settings' = r.Settings
        /\ disk' = disk
        /\ IF r.raised = ""
           THEN /\ resolved' = r.locals
                /\ \E keep \in SUBSET instances :
                      /\ Cardinality(keep \cup {self}) <= MaxInstances
                      /\ Cardinality(instances \cup {self}) <= MaxInstances
                            => keep = instances
                      /\ Cardinality(instances \ keep) <= 1
                      /\ instances' = keep \cup {self}
                /\ ret' = [op |-> "construct", self |-> None,
                           model_type |-> model_type, raised |-> "",
                           message |-> <<>>, value |-> None, before |-> None]
           ELSE /\ resolved' = resolved
                /\ instances' = instances
                /\ ret' = [op |-> "construct", self |-> None,
                           model_type |-> model_type, raised |-> r.raised,
                           message |-> r.message, value |-> None, before |-> None]

\* self.persist()
Persist(self) ==
    LET r == persist(self, disk, Settings)
    IN  /\ disk' = r.disk
        /\ ret' = [op |-> "persist", self |-> Some(self), model_type |-> None,
                   raised |-> r.raised, message |-> <<>>, value |-> r.value,
                   before |-> IF IsNone(self.storage_dir) THEN None
                              ELSE disk[Get(self.storage_dir)].index]
        /\ UNCHANGED <<instances, Settings, resolved>>

\* self.load()
Load(self) ==
    LET r == load(self, disk)
    IN  /\ ret' = [op |-> "load", self |-> Some(self), model_type |-> None,
                   raised |-> r.raised, message |-> <<>>, value |-> r.value]
        /\ UNCHANGED <<instances, Settings, disk, resolved>>

Next ==
    \/ \E s \in StorageDirs, d \in Documents, m \in ModelTypes : Construct(s, d, m)
    \/ \E self \in instances : Persist(self)
    \/ \E self \in instances : Load(self)

Spec == Init /\ [][Next]_vars

\* ------------------------------------------------------------ claims
\* The labels the claims call recognized, and the receiver of the last call.
RecognizedLabels ==
    {"DEFAULT", "LLAMA2-7B_Q4", "LLAMA2-7B_Q5", "LLAMA2-13B_Q4", "LLAMA2-13B_Q5",
     "MIXTRAL-7B_Q4", "MIXTRAL-7B_Q5"}
Receiver == Get(ret.self)
PersistSkips(self) == IsNone(self.documents) \/ IsNone(self.storage_dir)
HoldsIndex(d, p) == d[p].exists /\ ~IsNone(d[p].index)
\* The backend an applied embedding handle stands for: a HuggingFace model
\* runs locally; anything else is the library's default (remote) backend.
BackendOf(e) == IF e.cls = "HuggingFaceEmbedding" THEN "local" ELSE "default"

\* C1: a construction with one of the seven recognized labels succeeds and
\* leaves a language model and an embedding model in Settings; a construction
\* with any other label raises an error whose message names that label.
C1_RecognizedLabelsConfigure ==
    ret.op = "construct" =>
        IF \E l \in RecognizedLabels : ret.model_type = Some(l)
        THEN /\ ret.raised = ""
             /\ Settings.llm # Unset
             /\ Settings.embed_model # Unset
        ELSE /\ ret.raised = "TypeError"
             /\ \E i \in 1..Len(ret.message) : ret.message[i] = Format(ret.model_type)

C1_Witness ==
    /\ ret.op = "construct"
    /\ ret.model_type = Some("MIXTRAL-7B_Q5")
    /\ ret.raised = ""
    /\ Settings.llm = get_llm_model(MIXTRAL_7B_Q5_URL)

\* C2: a construction that omits the label (model_type = None) succeeds and
\* sets Settings as a construction with the DEFAULT label does.
C2_OmittedLabelIsDefault ==
    (ret.op = "construct" /\ IsNone(ret.model_type)) =>
        /\ ret.raised = ""
        /\ Settings.llm = StrValue("default")

\* C3: persist() on an instance with no documents or no storage path raises
\* nothing, returns None and leaves every storage directory as it was.
C3_PersistSkipIsNoOp ==
    [][(ret'.op = "persist" /\ PersistSkips(Get(ret'.self))) =>
            /\ ret'.raised = ""
            /\ IsNone(ret'.value)
            /\ disk' = disk]_vars

C3_Witness ==
    /\ ret.op = "persist"
    /\ IsNone(Receiver.documents)
    /\ ~IsNone(Receiver.storage_dir)
    /\ ~disk[Get(Receiver.storage_dir)].exists
    /\ IsNone(ret.value)

\* C4: persist() with documents and a storage path that holds no index yet
\* returns an index built from those documents, and a load() on the same
\* storage path right after it returns that same index.
C4_RoundTrip ==
    [][/\ (/\ ret'.op = "persist"
           /\ ~PersistSkips(Get(ret'.self))
           /\ IsNone(disk[Get(Get(ret'.self).storage_dir)].index)) =>
                /\ ret'.raised = ""
                /\ ~IsNone(ret'.value)
                /\ Get(ret'.value).docs = Get(Get(ret'.self).documents)
       /\ (/\ ret.op = "persist"
           /\ ~IsNone(ret.value)
           /\ IsNone(ret.before)
           /\ ret'.op = "load"
           /\ Get(ret'.self).storage_dir = Receiver.storage_dir) =>
                /\ ret'.raised = ""
                /\ ret'.value = ret.value]_vars

C4_Witness ==
    /\ ret.op = "load"
    /\ ret.raised = ""
    /\ ~IsNone(ret.value)
    /\ ~IsNone(Receiver.documents)
    /\ Get(ret.value).docs = Get(Receiver.documents)

\* C5: load() on an instance whose storage directory does not exist returns
\* None and raises nothing.
C5_LoadOfMissingStorage ==
    (/\ ret.op = "load"
     /\ \/ IsNone(Receiver.storage_dir)
        \/ ~disk[Get(Receiver.storage_dir)].exists) =>
        /\ ret.raised = ""
        /\ IsNone(ret.value)

\* C6: a persist() onto a storage path that already holds the index of other
\* documents leaves there the index of its own documents alone, and a load()
\* returns the index the directory holds.
C6_LastWriteWins ==
    /\ (ret.op = "persist" /\ ~IsNone(ret.value)) =>
            /\ HoldsIndex(disk, Get(Receiver.storage_dir))
            /\ disk[Get(Receiver.storage_dir)].index = ret.value
            /\ Get(ret.value).docs = Get(Receiver.documents)
    /\ (ret.op = "load" /\ ret.raised = "" /\ ~IsNone(ret.value)) =>
            ret.value = disk[Get(Receiver.storage_dir)].index

C6_Witness ==
    /\ ret.op = "persist"
    /\ ~IsNone(ret.before)
    /\ ~IsNone(ret.value)
    /\ Get(ret.before).docs # Get(ret.value).docs
    /\ Get(disk[Get(Receiver.storage_dir)].index).docs = Get(Receiver.documents)

\* C7: once a construction has succeeded the chunk size in Settings is 512,
\* whatever the label, and no persist() or load() changes it.
C7_ChunkSizeFixed ==
    ~IsNone(resolved) => Settings.chunk_size = 512

C7_Witness ==
    /\ ret.op = "load"
    /\ ~IsNone(resolved)
    /\ Get(resolved).embed_model = "default"
    /\ Settings.chunk_size = 512

\* C8: the embedding backend in Settings is the one the match resolved for
\* the label: default for DEFAULT, local for each quantized-model label.
C8_EmbeddingFollowsLabel ==
    ~IsNone(resolved) => BackendOf(Settings.embed_model) = Get(resolved).embed_model

\* C9: a storage path comes to exist only through a persist() that has both
\* documents and that path; a path that exists keeps existing; load(), a
\* skipped persist() and a construction leave the disk as it was.
C9_StorageStateMachine ==
    [][/\ \A p \in Paths :
            /\ (~disk[p].exists /\ disk'[p].exists) =>
                    /\ ret'.op = "persist"
                    /\ ~IsNone(Get(ret'.self).documents)
                    /\ Get(ret'.self).storage_dir = Some(p)
            /\ disk[p].exists => disk'[p].exists
       /\ (\/ ret'.op \in {"load", "construct"}
           \/ (ret'.op = "persist" /\ PersistSkips(Get(ret'.self)))) =>
                disk' = disk]_vars

C9_Witness ==
    /\ ret.op = "load"
    /\ ~IsNone(ret.value)
    /\ \E p \in Paths : HoldsIndex(disk, p) /\ Receiver.storage_dir = Some(p)

\* C10: Settings (language model, embedding model, chunk size) is what the
\* most recent successful construction resolved; a failed construction,
\* persist() and load() leave it alone, and persist() builds under it.
C10_SettingsOfLastConstruction ==
    ~IsNone(resolved) =>
        /\ Settings.llm = Get(resolved).llm
        /\ BackendOf(Settings.embed_model) = Get(resolved).embed_model
        /\ Settings.chunk_size = 512
        /\ (ret.op = "persist" /\ ~IsNone(ret.value)) =>
                /\ Get(ret.value).embed_model = Settings.embed_model
                /\ Get(ret.value).chunk_size = Settings.chunk_size

====
